---- MODULE Spec2Model ----
(***************************************************************************)
(* The table-games engine (TableGamesEngine: blackjack, roulette,          *)
(* baccarat) as a state machine.  One action per public method; every     *)
(* call runs to completion (the engine is synchronous).                    *)
(*                                                                         *)
(* The base class GameEngine (getPlayer, addBalance, shuffleArray) is not  *)
(* part of the sources at hand; those three operators follow the          *)
(* collaborator contract of the specification.                             *)
(***************************************************************************)
EXTENDS Integers, Sequences, FiniteSets, TLC

VARIABLES
    players,     \* the base class's player store: id -> [balance, currentBet]
    gameStates,  \* TableGamesEngine.gameStates: Map<tableId, round state>
    call,        \* the call that has just ended, with its inputs; or idle
    gs,          \* the local `gameState` of that call, as the call left it
    result       \* what that call returned, or that it threw

vars == <<players, gameStates, call, gs, result>>

----------------------------------------------------------------------------
(* Bounds of the model *)

\* shuffles cut the ordered deck at one of the first MaxCut cuts of Cuts ...
MaxCut == 3
\* ... and walk it with one of the first MaxStride strides of Strides
MaxStride == 2
\* the engine pays out at most this much in a run, all players together
MaxWinnings == 199
\* hands given to the scoring functions on their own have at most MaxHand cards
MaxHand == 3

----------------------------------------------------------------------------
(* Cards and decks *)

suits == <<"hearts", "diamonds", "clubs", "spades">>

ranks == <<"A", "2", "3", "4", "5", "6", "7", "8", "9", "T", "J", "Q", "K">>

\* parseInt on the ranks "2".."9": the digit's number (NaN, never used, otherwise)
parseInt(rank) ==
    CASE rank = "2" -> 2 [] rank = "3" -> 3 [] rank = "4" -> 4 [] rank = "5" -> 5
      [] rank = "6" -> 6 [] rank = "7" -> 7 [] rank = "8" -> 8 [] rank = "9" -> 9

\* the `value` field createDeck gives a card: the blackjack value
cardValue(rank) ==
    IF rank = "A" THEN 11
    ELSE IF rank \in {"J", "Q", "K"} THEN 10
    ELSE IF rank = "T" THEN 10
    ELSE parseInt(rank)

\* the deck before shuffling: suit by suit, A..K within a suit
orderedDeck ==
    [k \in 1..(Len(suits) * Len(ranks)) |->
        LET suit == suits[((k - 1) \div Len(ranks)) + 1]
            rank == ranks[((k - 1) % Len(ranks)) + 1]
        IN  [suit |-> suit, rank |-> rank, value |-> cardValue(rank)]]

\* positions at which a shuffle may cut the deck
Cuts == <<11, 8, 2, 3, 0, 1, 5>>

\* strides coprime with 52: walking the deck with one visits every card once
Strides == <<3, 23, 1, 5, 7, 9>>

\* the outcomes of the random source that the model explores
Seeds == [offset : {Cuts[i] : i \in 1..MaxCut},
          stride : {Strides[i] : i \in 1..MaxStride}]

\* GameEngine.shuffleArray: a permutation of the array, chosen by the random
\* source; here the permutation i -> offset + stride * (i - 1) (mod length)
shuffleArray(array, seed) ==
    [i \in 1..Len(array) |->
        array[((seed.offset + seed.stride * (i - 1)) % Len(array)) + 1]]

\* the outcomes of the random source for all the cuts and strides listed
Shuffles == [offset : {Cuts[i] : i \in DOMAIN Cuts},
             stride : {Strides[i] : i \in DOMAIN Strides}]

\* every deck createDeck can return, by the outcome of the random source
shuffledDecks ==
    [seed \in Shuffles |-> SubSeq(shuffleArray(orderedDeck, seed), 1, Len(orderedDeck))]
    @@ <<>>

createDeck(seed) == shuffledDecks[seed]

RECURSIVE sumHand(_)
\* the for loop of calculateBlackjackScore: <<score, aces>>
sumHand(hand) ==
    IF hand = <<>> THEN <<0, 0>>
    ELSE LET rest == sumHand(Tail(hand))
             card == Head(hand)
         IN  IF card.rank = "A" THEN <<rest[1] + 11, rest[2] + 1>>
             ELSE <<rest[1] + card.value, rest[2]>>

RECURSIVE adjustAces(_, _)
\* the while loop of calculateBlackjackScore
adjustAces(score, aces) ==
    IF score > 21 /\ aces > 0 THEN adjustAces(score - 10, aces - 1) ELSE score

\* calculateBlackjackScore, were an ace always counted as 11
calculateBlackjackScoreHardAces(hand) == sumHand(hand)[1]

calculateBlackjackScore(hand) ==
    LET s == sumHand(hand) IN adjustAces(s[1], s[2])

----------------------------------------------------------------------------
(* Tables, players and the inputs of the calls *)

\* initializeTables: the fixed catalogue (the gold-coin limits; the engine
\* reads no other field than type, minBet.gc and maxBet.gc)
tables ==
    ("blackjack-1" :> [id |-> "blackjack-1", type |-> "blackjack",
                       minBet |-> [gc |-> 5], maxBet |-> [gc |-> 500]])
    @@ ("roulette-1" :> [id |-> "roulette-1", type |-> "roulette",
                         minBet |-> [gc |-> 1], maxBet |-> [gc |-> 100]])
    @@ ("baccarat-1" :> [id |-> "baccarat-1", type |-> "baccarat",
                         minBet |-> [gc |-> 10], maxBet |-> [gc |-> 1000]])

\* an optional argument that was not passed, a field that was never set
Undefined == -1

\* table ids a caller may pass: the three tables and an unknown one
TableIds == DOMAIN tables \cup {"poker-1"}

\* player ids a caller may pass: the registered players and an unknown one
PlayerIds == {"p1", "p2", "nobody"}

\* action strings a caller may pass
Actions == {"bet", "hit", "stand", "double", "split"}

\* bet amounts a caller may pass: missing, zero, and both sides of each limit
Amounts == {Undefined, 0, 4, 5, 500, 501}

\* the players registered with the engine when it starts serving calls
InitialPlayers ==
    ("p1" :> [balance |-> [goldCoins |-> 500, sweepCoins |-> 10],
              currentBet |-> Undefined])
    @@ ("p2" :> [balance |-> [goldCoins |-> 0, sweepCoins |-> 0],
                 currentBet |-> Undefined])

\* GameEngine.getPlayer: is the player registered
hasPlayer(pl, playerId) == playerId \in DOMAIN pl

\* GameEngine.addBalance: credit one ledger of the player
addBalance(pl, playerId, amount, currency) ==
    IF currency = "GC"
    THEN [pl EXCEPT ![playerId].balance.goldCoins = @ + amount]
    ELSE [pl EXCEPT ![playerId].balance.sweepCoins = @ + amount]

canAffordWager(pl, playerId, amount, currency) ==
    IF ~hasPlayer(pl, playerId) THEN FALSE
    ELSE IF amount = Undefined THEN FALSE     \* n >= undefined is false
    ELSE IF currency = "GC" THEN pl[playerId].balance.goldCoins >= amount
    ELSE pl[playerId].balance.sweepCoins >= amount

\* a result object { success: false, error }
failure(msg) == [threw |-> FALSE, success |-> FALSE, error |-> msg]

\* the call raised a TypeError instead of returning
thrown == [threw |-> TRUE]

----------------------------------------------------------------------------
(* Blackjack *)

\* no gameState object was built (the call returned before line 216)
NoGameState ==
    [deck |-> <<>>, dealerHand |-> <<>>, playerHands |-> <<>>, bets |-> <<>>,
     stage |-> "none"]

\* the object built when the table has no entry in gameStates
newGameState(seed) ==
    [deck |-> createDeck(seed), dealerHand |-> <<>>, playerHands |-> <<>>,
     bets |-> <<>>, stage |-> "betting"]

\* `this.gameStates.get(tableId) || {...}`
getGameState(states, tableId, seed) ==
    IF tableId \in DOMAIN states THEN states[tableId] ELSE newGameState(seed)

\* The gameState a call mutates is the stored object when the table has an
\* entry, and an object of its own otherwise: only the former is seen again.
aliased(states, tableId, gameState) ==
    IF tableId \in DOMAIN states THEN [states EXCEPT ![tableId] = gameState]
    ELSE states

\* what deck.pop() gives on an empty array, pushed into a hand
undefinedCard == [suit |-> "undefined", rank |-> "undefined", value |-> Undefined]

\* popped, were the cards taken from the front of the array (shift for pop)
poppedFromFront(deck, n) ==
    [i \in 1..n |-> IF i <= Len(deck) THEN deck[i] ELSE undefinedCard]

\* deck.pop() taken n times: the cards from the end of the array, last first
popped(deck, n) ==
    [i \in 1..n |-> IF i <= Len(deck) THEN deck[Len(deck) + 1 - i] ELSE undefinedCard]

\* the array after n pops, were pop to leave the array as it is (at(-1) for pop)
afterPopNone(deck, n) == deck

\* the array after n pops
afterPop(deck, n) == SubSeq(deck, 1, IF Len(deck) >= n THEN Len(deck) - n ELSE 0)

\* calculateBlackjackScore reads card.rank: a TypeError on an undefined card
scoreThrows(hand) == \E i \in 1..Len(hand) : hand[i] = undefinedCard

RECURSIVE dealerHits(_, _)
\* `while (score(dealerHand) < 17) dealerHand.push(deck.pop())`
dealerHits(dealerHand, deck) ==
    IF scoreThrows(dealerHand)
    THEN [dealerHand |-> dealerHand, deck |-> deck, threw |-> TRUE]
    ELSE IF calculateBlackjackScore(dealerHand) >= 17
    THEN [dealerHand |-> dealerHand, deck |-> deck, threw |-> FALSE]
    ELSE dealerHits(dealerHand \o popped(deck, 1), afterPop(deck, 1))

\* the if-chain of resolveBlackjackHand: <<result, payout>>
outcome(playerScore, dealerScore, bet) ==
    IF playerScore > 21 THEN <<"bust", 0>>
    ELSE IF dealerScore > 21 THEN <<"win", bet * 2>>
    ELSE IF playerScore > dealerScore THEN <<"win", bet * 2>>
    ELSE IF playerScore < dealerScore THEN <<"lose", 0>>
    ELSE <<"push", bet>>

\* resolveBlackjackHand on `gameState`: the state it leaves, the player store
\* and what it returns.  Scoring a hand that is not there throws.
resolveBlackjackHand(pl, playerId, gameState) ==
    LET d      == dealerHits(gameState.dealerHand, gameState.deck)
        after  == [gameState EXCEPT !.dealerHand = d.dealerHand, !.deck = d.deck]
    IN  IF \/ d.threw
           \/ playerId \notin DOMAIN gameState.playerHands
           \/ scoreThrows(gameState.playerHands[playerId])
        THEN [gs |-> after, players |-> pl, result |-> thrown]
        ELSE
          LET playerScore == calculateBlackjackScore(gameState.playerHands[playerId])
              dealerScore == calculateBlackjackScore(d.dealerHand)
              o           == outcome(playerScore, dealerScore, gameState.bets[playerId])
          IN  [gs      |-> after,
               players |-> IF o[2] > 0 THEN addBalance(pl, playerId, o[2], "GC")
                           ELSE pl,
               result  |-> [threw |-> FALSE, success |-> TRUE, result |-> o[1],
                            playerScore |-> playerScore, dealerScore |-> dealerScore,
                            dealerHand |-> d.dealerHand, payout |-> o[2]]]

\* invalidBet, were the limits themselves refused (<= and >= for < and >)
invalidBetExclusive(table, bet) ==
    \/ bet = Undefined \/ bet = 0
    \/ bet <= table.minBet.gc
    \/ bet >= table.maxBet.gc

\* `!bet || bet < table.minBet.gc || bet > table.maxBet.gc`
invalidBet(table, bet) ==
    \/ bet = Undefined \/ bet = 0
    \/ bet < table.minBet.gc
    \/ bet > table.maxBet.gc

\* case "bet", were the stake taken from the gold-coin ledger
dealBetDebiting(pl, states, playerId, tableId, gameState, bet) ==
    LET cards      == popped(gameState.deck, 4)
        playerHand == <<cards[1], cards[2]>>
        dealerHand == <<cards[3], cards[4]>>
        after      == [gameState EXCEPT
                         !.bets        = (playerId :> bet) @@ @,
                         !.deck        = afterPop(@, 4),
                         !.playerHands = (playerId :> playerHand) @@ @,
                         !.dealerHand  = dealerHand,
                         !.stage       = "playing"]
    IN  [players    |-> [pl EXCEPT ![playerId].currentBet = bet,
                                   ![playerId].balance.goldCoins = @ - bet],
         gameStates |-> aliased(states, tableId, after),
         gs         |-> after,
         result     |-> IF scoreThrows(playerHand) THEN thrown
                        ELSE [threw |-> FALSE, success |-> TRUE,
                              playerHand |-> playerHand,
                              dealerCard |-> dealerHand[1],
                              playerScore |-> calculateBlackjackScore(playerHand)]]

\* case "bet", past the validation
dealBet(pl, states, playerId, tableId, gameState, bet) ==
    LET cards      == popped(gameState.deck, 4)
        playerHand == <<cards[1], cards[2]>>
        dealerHand == <<cards[3], cards[4]>>
        after      == [gameState EXCEPT
                         !.bets        = (playerId :> bet) @@ @,
                         !.deck        = afterPop(@, 4),
                         !.playerHands = (playerId :> playerHand) @@ @,
                         !.dealerHand  = dealerHand,
                         !.stage       = "playing"]
    IN  [players    |-> [pl EXCEPT ![playerId].currentBet = bet],
         gameStates |-> aliased(states, tableId, after),
         gs         |-> after,
         result     |-> IF scoreThrows(playerHand) THEN thrown
                        ELSE [threw |-> FALSE, success |-> TRUE,
                              playerHand |-> playerHand,
                              dealerCard |-> dealerHand[1],
                              playerScore |-> calculateBlackjackScore(playerHand)]]

\* case "hit"
hit(pl, states, playerId, tableId, gameState) ==
    IF playerId \notin DOMAIN gameState.playerHands
    THEN [players |-> pl, gameStates |-> states, gs |-> gameState,
          result |-> failure("No active hand")]
    ELSE
      LET hand  == gameState.playerHands[playerId] \o popped(gameState.deck, 1)
          after == [gameState EXCEPT !.playerHands[playerId] = hand,
                                     !.deck = afterPop(@, 1)]
          score == calculateBlackjackScore(hand)
      IN  [players    |-> pl,
           gameStates |-> aliased(states, tableId, after),
           gs         |-> after,
           result     |-> IF scoreThrows(hand) THEN thrown
                          ELSE IF score > 21
                          THEN [threw |-> FALSE, success |-> TRUE, hand |-> hand,
                                score |-> score, result |-> "bust"]
                          ELSE [threw |-> FALSE, success |-> TRUE, hand |-> hand,
                                score |-> score]]

\* case "stand"
stand(pl, states, playerId, tableId, gameState) ==
    LET r == resolveBlackjackHand(pl, playerId, gameState)
    IN  [players |-> r.players, gameStates |-> aliased(states, tableId, r.gs),
         gs |-> r.gs, result |-> r.result]

\* double, were the bet doubled before the hand is looked up
doubleBeforeLookup(pl, states, playerId, tableId, gameState) ==
    IF ~canAffordWager(pl, playerId, pl[playerId].currentBet, "GC")
    THEN [players |-> pl, gameStates |-> states, gs |-> gameState,
          result |-> failure("Insufficient funds to double")]
    ELSE
      LET doubled == [pl EXCEPT ![playerId].currentBet = @ * 2]
      IN  IF playerId \notin DOMAIN gameState.playerHands
          THEN [players |-> doubled, gameStates |-> states, gs |-> gameState,
                result |-> failure("No active hand")]
          ELSE
            LET drawn == [gameState EXCEPT
                            !.playerHands[playerId] = @ \o popped(gameState.deck, 1),
                            !.deck = afterPop(@, 1)]
                r     == resolveBlackjackHand(doubled, playerId, drawn)
            IN  [players |-> r.players,
                 gameStates |-> aliased(states, tableId, r.gs),
                 gs |-> r.gs, result |-> r.result]

\* case "double"
double(pl, states, playerId, tableId, gameState) ==
    IF ~canAffordWager(pl, playerId, pl[playerId].currentBet, "GC")
    THEN [players |-> pl, gameStates |-> states, gs |-> gameState,
          result |-> failure("Insufficient funds to double")]
    ELSE IF playerId \notin DOMAIN gameState.playerHands
    THEN [players |-> pl, gameStates |-> states, gs |-> gameState,
          result |-> failure("No active hand")]
    ELSE
      LET doubled == [pl EXCEPT ![playerId].currentBet = @ * 2]
          drawn   == [gameState EXCEPT
                        !.playerHands[playerId] = @ \o popped(gameState.deck, 1),
                        !.deck = afterPop(@, 1)]
          r       == resolveBlackjackHand(doubled, playerId, drawn)
      IN  [players |-> r.players, gameStates |-> aliased(states, tableId, r.gs),
           gs |-> r.gs, result |-> r.result]

\* playBlackjack, were the player looked up before the table
blackjackPlayerFirst(pl, states, playerId, tableId, action, bet, seed) ==
    IF ~hasPlayer(pl, playerId)
    THEN [players |-> pl, gameStates |-> states, gs |-> NoGameState,
          result |-> failure("Player not found")]
    ELSE IF tableId \notin DOMAIN tables \/ tables[tableId].type # "blackjack"
    THEN [players |-> pl, gameStates |-> states, gs |-> NoGameState,
          result |-> failure("Invalid blackjack table")]
    ELSE
      LET gameState == getGameState(states, tableId, seed)
      IN  CASE action = "bet" ->
                 IF invalidBet(tables[tableId], bet)
                 THEN [players |-> pl, gameStates |-> states, gs |-> gameState,
                       result |-> failure("Invalid bet amount")]
                 ELSE dealBet(pl, states, playerId, tableId, gameState, bet)
            [] action = "hit"    -> hit(pl, states, playerId, tableId, gameState)
            [] action = "stand"  -> stand(pl, states, playerId, tableId, gameState)
            [] action = "double" -> double(pl, states, playerId, tableId, gameState)
            [] OTHER ->
                 [players |-> pl, gameStates |-> states, gs |-> gameState,
                  result |-> failure("Invalid action")]

\* playBlackjack as a function of the engine's state, the arguments and the
\* shuffle: the player store, the map of round states, the local gameState and
\* the returned value, all as they are when the call ends
blackjack(pl, states, playerId, tableId, action, bet, seed) ==
    IF tableId \notin DOMAIN tables \/ tables[tableId].type # "blackjack"
    THEN [players |-> pl, gameStates |-> states, gs |-> NoGameState,
          result |-> failure("Invalid blackjack table")]
    ELSE
      LET gameState == getGameState(states, tableId, seed)
      IN  IF ~hasPlayer(pl, playerId)
          THEN [players |-> pl, gameStates |-> states, gs |-> gameState,
                result |-> failure("Player not found")]
          ELSE CASE action = "bet" ->
                      IF invalidBet(tables[tableId], bet)
                      THEN [players |-> pl, gameStates |-> states, gs |-> gameState,
                            result |-> failure("Invalid bet amount")]
                      ELSE dealBet(pl, states, playerId, tableId, gameState, bet)
                 [] action = "hit"    -> hit(pl, states, playerId, tableId, gameState)
                 [] action = "stand"  -> stand(pl, states, playerId, tableId, gameState)
                 [] action = "double" -> double(pl, states, playerId, tableId, gameState)
                 [] OTHER ->
                      [players |-> pl, gameStates |-> states, gs |-> gameState,
                       result |-> failure("Invalid action")]

RECURSIVE goldCoins(_, _)
\* the gold coins of the players of `ids`, added up
goldCoins(pl, ids) ==
    IF ids = {} THEN 0
    ELSE LET p == CHOOSE q \in ids : TRUE
         IN  pl[p].balance.goldCoins + goldCoins(pl, ids \ {p})

\* the payouts so far stay within the bound of the model
withinWinnings(pl) ==
    goldCoins(pl, DOMAIN pl) <= goldCoins(InitialPlayers, DOMAIN pl) + MaxWinnings

\* no call is in progress and no result is waiting
idle == [op |-> "idle"]

\* does a call on this table of a game of this type build a deck
shuffles(tableId, type) ==
    /\ tableId \in DOMAIN tables
    /\ tables[tableId].type = type
    /\ (type = "blackjack" => tableId \notin DOMAIN gameStates)

\* no deck was built
NoSeed == [offset |-> 0, stride |-> 0]

\* the outcomes of the random source a call may meet
SeedsOf(tableId, type) == IF shuffles(tableId, type) THEN Seeds ELSE {NoSeed}

playBlackjack(playerId, tableId, action, bet, seed) ==
    LET r == blackjack(players, gameStates, playerId, tableId, action, bet, seed)
    IN  /\ call = idle
        /\ withinWinnings(r.players)
        /\ players' = r.players
        /\ gameStates' = r.gameStates
        /\ gs' = r.gs
        /\ result' = r.result
        /\ call' = [op |-> "playBlackjack", playerId |-> playerId,
                    tableId |-> tableId, action |-> action, bet |-> bet,
                    seed |-> seed]

----------------------------------------------------------------------------
(* Roulette *)

redNumbers == {1, 3, 5, 7, 9, 12, 14, 16, 18, 19, 21, 23, 25, 27, 30, 32, 34, 36}

\* the numbers of the wheel: Math.floor(Math.random() * 37)
WheelNumbers == 0..36

\* generateRouletteResult, were the dozen rounded down (floor + 1 for ceil)
generateRouletteResultFloorDozen(number) ==
    [number |-> number,
     color  |-> IF number = 0 THEN "green"
                ELSE IF number \in redNumbers THEN "red" ELSE "black",
     isOdd  |-> number % 2 = 1,
     dozen  |-> IF number = 0 THEN 0 ELSE (number \div 12) + 1,
     column |-> IF number = 0 THEN 0 ELSE ((number - 1) % 3) + 1]

generateRouletteResult(number) ==
    [number |-> number,
     color  |-> IF number = 0 THEN "green"
                ELSE IF number \in redNumbers THEN "red" ELSE "black",
     isOdd  |-> number % 2 = 1,
     dozen  |-> IF number = 0 THEN 0 ELSE (number + 11) \div 12,  \* Math.ceil(n / 12)
     column |-> IF number = 0 THEN 0 ELSE ((number - 1) % 3) + 1]

\* checkRouletteBet, were the zero not excluded from the even numbers
checkRouletteBetZeroEven(bet, wheel) ==
    CASE bet.type = "straight" ->
            \E i \in 1..Len(bet.numbers) : bet.numbers[i] = wheel.number
      [] bet.type = "red"    -> wheel.color = "red"
      [] bet.type = "black"  -> wheel.color = "black"
      [] bet.type = "odd"    -> wheel.isOdd /\ wheel.number # 0
      [] bet.type = "even"   -> ~wheel.isOdd
      [] bet.type = "low"    -> wheel.number >= 1 /\ wheel.number <= 18
      [] bet.type = "high"   -> wheel.number >= 19 /\ wheel.number <= 36
      [] bet.type = "dozen"  -> bet.numbers # <<>> /\ bet.numbers[1] = wheel.dozen
      [] bet.type = "column" -> bet.numbers # <<>> /\ bet.numbers[1] = wheel.column
      [] OTHER -> FALSE

\* checkRouletteBet, were the zero a low number
checkRouletteBetZeroLow(bet, wheel) ==
    CASE bet.type = "straight" ->
            \E i \in 1..Len(bet.numbers) : bet.numbers[i] = wheel.number
      [] bet.type = "red"    -> wheel.color = "red"
      [] bet.type = "black"  -> wheel.color = "black"
      [] bet.type = "odd"    -> wheel.isOdd /\ wheel.number # 0
      [] bet.type = "even"   -> ~wheel.isOdd /\ wheel.number # 0
      [] bet.type = "low"    -> wheel.number <= 18
      [] bet.type = "high"   -> wheel.number >= 19 /\ wheel.number <= 36
      [] bet.type = "dozen"  -> bet.numbers # <<>> /\ bet.numbers[1] = wheel.dozen
      [] bet.type = "column" -> bet.numbers # <<>> /\ bet.numbers[1] = wheel.column
      [] OTHER -> FALSE

\* checkRouletteBet, were a split to win like a straight on its numbers
checkRouletteBetSplitCovers(bet, wheel) ==
    CASE bet.type = "straight" ->
            \E i \in 1..Len(bet.numbers) : bet.numbers[i] = wheel.number
      [] bet.type = "red"    -> wheel.color = "red"
      [] bet.type = "black"  -> wheel.color = "black"
      [] bet.type = "odd"    -> wheel.isOdd /\ wheel.number # 0
      [] bet.type = "even"   -> ~wheel.isOdd /\ wheel.number # 0
      [] bet.type = "low"    -> wheel.number >= 1 /\ wheel.number <= 18
      [] bet.type = "high"   -> wheel.number >= 19 /\ wheel.number <= 36
      [] bet.type = "dozen"  -> bet.numbers # <<>> /\ bet.numbers[1] = wheel.dozen
      [] bet.type = "column" -> bet.numbers # <<>> /\ bet.numbers[1] = wheel.column
      [] bet.type = "split" ->
            \E i \in 1..Len(bet.numbers) : bet.numbers[i] = wheel.number
      [] OTHER -> FALSE

checkRouletteBet(bet, wheel) ==
    CASE bet.type = "straight" ->
            \E i \in 1..Len(bet.numbers) : bet.numbers[i] = wheel.number
      [] bet.type = "red"    -> wheel.color = "red"
      [] bet.type = "black"  -> wheel.color = "black"
      [] bet.type = "odd"    -> wheel.isOdd /\ wheel.number # 0
      [] bet.type = "even"   -> ~wheel.isOdd /\ wheel.number # 0
      [] bet.type = "low"    -> wheel.number >= 1 /\ wheel.number <= 18
      [] bet.type = "high"   -> wheel.number >= 19 /\ wheel.number <= 36
      [] bet.type = "dozen"  -> bet.numbers # <<>> /\ bet.numbers[1] = wheel.dozen
      [] bet.type = "column" -> bet.numbers # <<>> /\ bet.numbers[1] = wheel.column
      [] OTHER -> FALSE

\* betResult, were a losing bet paid like a winning one
betResultAlwaysPaid(bet, wheel) ==
    LET isWin == checkRouletteBet(bet, wheel)
    IN  [type |-> bet.type, amount |-> bet.amount, isWin |-> isWin,
         payout |-> bet.amount * bet.payout]

\* the body of the loop over the bets: one entry of betResults
betResult(bet, wheel) ==
    LET isWin == checkRouletteBet(bet, wheel)
    IN  [type |-> bet.type, amount |-> bet.amount, isWin |-> isWin,
         payout |-> IF isWin THEN bet.amount * bet.payout ELSE 0]

RECURSIVE sumPayouts(_)
\* totalPayout: the payouts of the entries, added up
sumPayouts(betResults) ==
    IF betResults = <<>> THEN 0
    ELSE Head(betResults).payout + sumPayouts(Tail(betResults))

\* playRoulette, were the winnings credited to the sweep-coin ledger
rouletteInSweepCoins(pl, playerId, tableId, bets, number) ==
    IF tableId \notin DOMAIN tables \/ tables[tableId].type # "roulette"
    THEN [players |-> pl, result |-> failure("Invalid roulette table")]
    ELSE
      LET wheel       == generateRouletteResult(number)
          betResults  == [i \in 1..Len(bets) |-> betResult(bets[i], wheel)]
          totalPayout == sumPayouts(betResults)
      IN  [players |-> IF totalPayout > 0
                       THEN addBalance(pl, playerId, totalPayout, "SC") ELSE pl,
           result  |-> [threw |-> FALSE, success |-> TRUE, result |-> wheel,
                        betResults |-> betResults, totalPayout |-> totalPayout]]

\* playRoulette as a function of the player store, the arguments and the wheel
roulette(pl, playerId, tableId, bets, number) ==
    IF tableId \notin DOMAIN tables \/ tables[tableId].type # "roulette"
    THEN [players |-> pl, result |-> failure("Invalid roulette table")]
    ELSE
      LET wheel       == generateRouletteResult(number)
          betResults  == [i \in 1..Len(bets) |-> betResult(bets[i], wheel)]
          totalPayout == sumPayouts(betResults)
      IN  [players |-> IF totalPayout > 0
                       THEN addBalance(pl, playerId, totalPayout, "GC") ELSE pl,
           result  |-> [threw |-> FALSE, success |-> TRUE, result |-> wheel,
                        betResults |-> betResults, totalPayout |-> totalPayout]]

\* bet lists a caller may pass, among them one with a negative multiplier and
\* a negative stake, which nothing refuses
RouletteBetLists ==
    { <<>>,
      << [type |-> "straight", numbers |-> <<0>>, amount |-> 5, payout |-> 36] >>,
      << [type |-> "red", numbers |-> <<>>, amount |-> 50, payout |-> 2],
         [type |-> "straight", numbers |-> <<32, 19>>, amount |-> 2, payout |-> 36] >>,
      << [type |-> "split", numbers |-> <<0, 32>>, amount |-> 2, payout |-> 18],
         [type |-> "dozen", numbers |-> <<3>>, amount |-> 40, payout |-> 3] >>,
      << [type |-> "red", numbers |-> <<>>, amount |-> 50, payout |-> -2],
         [type |-> "black", numbers |-> <<>>, amount |-> -50, payout |-> 2] >> }

\* the numbers the wheel may show in a call
NumbersOf(tableId) == IF shuffles(tableId, "roulette") THEN WheelNumbers ELSE {0}

playRoulette(playerId, tableId, bets, number) ==
    LET r == roulette(players, playerId, tableId, bets, number)
    IN  /\ call = idle
        /\ withinWinnings(r.players)
        /\ players' = r.players
        /\ result' = r.result
        /\ call' = [op |-> "playRoulette", playerId |-> playerId,
                    tableId |-> tableId, bets |-> bets, number |-> number]
        /\ UNCHANGED <<gameStates, gs>>

----------------------------------------------------------------------------
(* Baccarat *)

\* the value of one card inside calculateBaccaratValue
baccaratCardValue(card) ==
    IF card.rank = "A" THEN 1
    ELSE IF card.rank \in {"J", "Q", "K"} THEN 0
    ELSE IF card.rank = "T" THEN 0
    ELSE parseInt(card.rank)

RECURSIVE baccaratTotal(_)
\* the reduce of calculateBaccaratValue
baccaratTotal(cards) ==
    IF cards = <<>> THEN 0
    ELSE baccaratTotal(SubSeq(cards, 1, Len(cards) - 1))
         + baccaratCardValue(cards[Len(cards)])

\* calculateBaccaratValue, were the total not reduced modulo 10
calculateBaccaratValueNoMod(cards) == baccaratTotal(cards)

calculateBaccaratValue(cards) == baccaratTotal(cards) % 10

\* bankerRules, were the 8 not left out for a banker on 3
bankerRulesNoExceptionOnThree ==
    (3 :> {0, 1, 2, 3, 4, 5, 6, 7, 8, 9}) @@ (4 :> {2, 3, 4, 5, 6, 7})
    @@ (5 :> {4, 5, 6, 7}) @@ (6 :> {6, 7})

\* the lists of the rule table, by the banker's value
bankerRules ==
    (3 :> {0, 1, 2, 3, 4, 5, 6, 7, 9}) @@ (4 :> {2, 3, 4, 5, 6, 7})
    @@ (5 :> {4, 5, 6, 7}) @@ (6 :> {6, 7})

shouldBankerDrawThird(bankerValue, playerThirdCard) ==
    IF bankerValue >= 7 THEN FALSE
    ELSE IF bankerValue <= 2 THEN TRUE
    ELSE bankerValue \in DOMAIN bankerRules
         /\ playerThirdCard \in bankerRules[bankerValue]

\* what the call passes to shouldBankerDrawThird for the player's third card
thirdCardArgument(thirdCard) == thirdCard.value

\* baccaratHands, were only a 9 a natural
baccaratHandsNaturalNine(deck) ==
    LET cards         == popped(deck, 6)
        playerCards   == <<cards[1], cards[2]>>
        bankerCards   == <<cards[3], cards[4]>>
        playerValue   == calculateBaccaratValue(playerCards)
        bankerValue   == calculateBaccaratValue(bankerCards)
        playerNatural == playerValue >= 9
        bankerNatural == bankerValue >= 9
    IN  IF ~playerNatural /\ ~bankerNatural
        THEN IF playerValue <= 5
             THEN [playerCards |-> Append(playerCards, cards[5]),
                   bankerCards |->
                       IF shouldBankerDrawThird(bankerValue,
                                                thirdCardArgument(cards[5]))
                       THEN Append(bankerCards, cards[6]) ELSE bankerCards,
                   playerNatural |-> playerNatural, bankerNatural |-> bankerNatural]
             ELSE IF bankerValue <= 5
             THEN [playerCards |-> playerCards,
                   bankerCards |-> Append(bankerCards, cards[5]),
                   playerNatural |-> playerNatural, bankerNatural |-> bankerNatural]
             ELSE [playerCards |-> playerCards, bankerCards |-> bankerCards,
                   playerNatural |-> playerNatural, bankerNatural |-> bankerNatural]
        ELSE [playerCards |-> playerCards, bankerCards |-> bankerCards,
              playerNatural |-> playerNatural, bankerNatural |-> bankerNatural]

\* baccaratHands, were the player to draw on 6 as well
baccaratHandsPlayerDrawsOnSix(deck) ==
    LET cards         == popped(deck, 6)
        playerCards   == <<cards[1], cards[2]>>
        bankerCards   == <<cards[3], cards[4]>>
        playerValue   == calculateBaccaratValue(playerCards)
        bankerValue   == calculateBaccaratValue(bankerCards)
        playerNatural == playerValue >= 8
        bankerNatural == bankerValue >= 8
    IN  IF ~playerNatural /\ ~bankerNatural
        THEN IF playerValue <= 6
             THEN [playerCards |-> Append(playerCards, cards[5]),
                   bankerCards |->
                       IF shouldBankerDrawThird(bankerValue,
                                                thirdCardArgument(cards[5]))
                       THEN Append(bankerCards, cards[6]) ELSE bankerCards,
                   playerNatural |-> playerNatural, bankerNatural |-> bankerNatural]
             ELSE IF bankerValue <= 5
             THEN [playerCards |-> playerCards,
                   bankerCards |-> Append(bankerCards, cards[5]),
                   playerNatural |-> playerNatural, bankerNatural |-> bankerNatural]
             ELSE [playerCards |-> playerCards, bankerCards |-> bankerCards,
                   playerNatural |-> playerNatural, bankerNatural |-> bankerNatural]
        ELSE [playerCards |-> playerCards, bankerCards |-> bankerCards,
              playerNatural |-> playerNatural, bankerNatural |-> bankerNatural]

\* the deal and the third-card rules: the two final hands
baccaratHands(deck) ==
    LET cards         == popped(deck, 6)
        playerCards   == <<cards[1], cards[2]>>
        bankerCards   == <<cards[3], cards[4]>>
        playerValue   == calculateBaccaratValue(playerCards)
        bankerValue   == calculateBaccaratValue(bankerCards)
        playerNatural == playerValue >= 8
        bankerNatural == bankerValue >= 8
    IN  IF ~playerNatural /\ ~bankerNatural
        THEN IF playerValue <= 5
             THEN [playerCards |-> Append(playerCards, cards[5]),
                   bankerCards |->
                       IF shouldBankerDrawThird(bankerValue,
                                                thirdCardArgument(cards[5]))
                       THEN Append(bankerCards, cards[6]) ELSE bankerCards,
                   playerNatural |-> playerNatural, bankerNatural |-> bankerNatural]
             ELSE IF bankerValue <= 5
             THEN [playerCards |-> playerCards,
                   bankerCards |-> Append(bankerCards, cards[5]),
                   playerNatural |-> playerNatural, bankerNatural |-> bankerNatural]
             ELSE [playerCards |-> playerCards, bankerCards |-> bankerCards,
                   playerNatural |-> playerNatural, bankerNatural |-> bankerNatural]
        ELSE [playerCards |-> playerCards, bankerCards |-> bankerCards,
              playerNatural |-> playerNatural, bankerNatural |-> bankerNatural]

\* amount * 1.95, for the amounts on which it is a whole number
times195(amount) == (amount * 195) \div 100

\* baccaratPayout, were the banker paid without the commission
baccaratPayoutEvenMoney(betType, winner, amount) ==
    IF betType = winner
    THEN CASE betType = "player" -> amount * 2
           [] betType = "banker" -> amount * 2
           [] betType = "tie"    -> amount * 9
    ELSE 0

baccaratPayout(betType, winner, amount) ==
    IF betType = winner
    THEN CASE betType = "player" -> amount * 2
           [] betType = "banker" -> times195(amount)
           [] betType = "tie"    -> amount * 9
    ELSE 0

\* playBaccarat, were the round dealt from a deck four cards short
baccaratOnUsedDeck(pl, playerId, tableId, betType, amount, seed) ==
    IF tableId \notin DOMAIN tables \/ tables[tableId].type # "baccarat"
    THEN [players |-> pl, result |-> failure("Invalid baccarat table")]
    ELSE
      LET h           == baccaratHands(afterPop(createDeck(seed), 4))
          playerValue == calculateBaccaratValue(h.playerCards)
          bankerValue == calculateBaccaratValue(h.bankerCards)
          winner      == IF playerValue > bankerValue THEN "player"
                         ELSE IF bankerValue > playerValue THEN "banker"
                         ELSE "tie"
          payout      == baccaratPayout(betType, winner, amount)
      IN  [players |-> IF payout > 0 THEN addBalance(pl, playerId, payout, "GC")
                       ELSE pl,
           result  |-> [threw |-> FALSE, success |-> TRUE,
                        result |-> [playerHand |-> [cards |-> h.playerCards,
                                                    value |-> playerValue,
                                                    isNatural |-> h.playerNatural],
                                    bankerHand |-> [cards |-> h.bankerCards,
                                                    value |-> bankerValue,
                                                    isNatural |-> h.bankerNatural],
                                    winner |-> winner],
                        payout |-> payout, betType |-> betType, amount |-> amount]]

\* playBaccarat as a function of the player store, the arguments and the shuffle
baccarat(pl, playerId, tableId, betType, amount, seed) ==
    IF tableId \notin DOMAIN tables \/ tables[tableId].type # "baccarat"
    THEN [players |-> pl, result |-> failure("Invalid baccarat table")]
    ELSE
      LET h           == baccaratHands(createDeck(seed))
          playerValue == calculateBaccaratValue(h.playerCards)
          bankerValue == calculateBaccaratValue(h.bankerCards)
          winner      == IF playerValue > bankerValue THEN "player"
                         ELSE IF bankerValue > playerValue THEN "banker"
                         ELSE "tie"
          payout      == baccaratPayout(betType, winner, amount)
      IN  [players |-> IF payout > 0 THEN addBalance(pl, playerId, payout, "GC")
                       ELSE pl,
           result  |-> [threw |-> FALSE, success |-> TRUE,
                        result |-> [playerHand |-> [cards |-> h.playerCards,
                                                    value |-> playerValue,
                                                    isNatural |-> h.playerNatural],
                                    bankerHand |-> [cards |-> h.bankerCards,
                                                    value |-> bankerValue,
                                                    isNatural |-> h.bankerNatural],
                                    winner |-> winner],
                        payout |-> payout, betType |-> betType, amount |-> amount]]

\* bets a caller may pass, among them a negative stake, which nothing refuses
\* (the stakes are multiples of 20: see times195)
BaccaratBets ==
    { [betType |-> "player", amount |-> 80], [betType |-> "banker", amount |-> 80],
      [betType |-> "tie", amount |-> 20], [betType |-> "player", amount |-> -80] }

playBaccarat(playerId, tableId, betType, amount, seed) ==
    LET r == baccarat(players, playerId, tableId, betType, amount, seed)
    IN  /\ call = idle
        /\ withinWinnings(r.players)
        /\ players' = r.players
        /\ result' = r.result
        /\ call' = [op |-> "playBaccarat", playerId |-> playerId,
                    tableId |-> tableId, betType |-> betType, amount |-> amount,
                    seed |-> seed]
        /\ UNCHANGED <<gameStates, gs>>

----------------------------------------------------------------------------
(* The table catalogue *)

joinTable(playerId, tableId) ==
    /\ call = idle
    /\ result' = IF tableId \notin DOMAIN tables THEN failure("Table not found")
                 ELSE IF ~hasPlayer(players, playerId)
                 THEN failure("Player not found")
                 ELSE [threw |-> FALSE, success |-> TRUE]
    /\ call' = [op |-> "joinTable", playerId |-> playerId, tableId |-> tableId]
    /\ UNCHANGED <<players, gameStates, gs>>

----------------------------------------------------------------------------
(* The engine and its caller *)

\* a new engine: the players are registered, no round state is stored
Init ==
    /\ players = InitialPlayers
    /\ gameStates = <<>>
    /\ call = idle
    /\ gs = NoGameState
    /\ result = [threw |-> FALSE]

\* the caller has taken the result (or caught the error): the engine, which
\* serves one call at a time, is free for the next call
taken ==
    /\ call # idle
    /\ call' = idle
    /\ gs' = NoGameState
    /\ result' = [threw |-> FALSE]
    /\ UNCHANGED <<players, gameStates>>

\* the registered players: the callers of the games that pay without a lookup
Registered == DOMAIN InitialPlayers

Next ==
    \/ \E playerId \in PlayerIds, tableId \in TableIds, action \in Actions :
          \E bet \in (IF action = "bet" THEN Amounts ELSE {Undefined}),
             seed \in SeedsOf(tableId, "blackjack") :
              playBlackjack(playerId, tableId, action, bet, seed)
    \/ \E playerId \in Registered, tableId \in TableIds,
          bets \in RouletteBetLists :
          \E number \in NumbersOf(tableId) :
              playRoulette(playerId, tableId, bets, number)
    \/ \E playerId \in Registered, tableId \in TableIds, bet \in BaccaratBets :
          \E seed \in SeedsOf(tableId, "baccarat") :
              playBaccarat(playerId, tableId, bet.betType, bet.amount, seed)
    \/ \E playerId \in PlayerIds, tableId \in TableIds :
          joinTable(playerId, tableId)
    \/ taken

Spec == Init /\ [][Next]_vars

----------------------------------------------------------------------------
(* The bet rules of the wheel on their own: checkRouletteBet on the outcome *)
(* of every number, for bets of every category                             *)

\* the categories of RouletteBet: those checkRouletteBet knows and the others
BetTypes == {"straight", "red", "black", "odd", "even", "low", "high",
             "dozen", "column", "split", "street", "corner", "line"}

\* the `numbers` a bet may list
BetNumbers == {<<>>, <<0>>, <<1>>, <<2>>, <<3>>, <<2, 3>>, <<32, 19, 0>>}

\* bets a caller may pass (stake and multiplier play no part in the rules)
WheelBets == [type : BetTypes, numbers : BetNumbers, amount : {5}, payout : {18}]

\* one pass of the loop of playRoulette, for a wheel number
checkBet(bet, number) ==
    /\ call = idle
    /\ call' = [op |-> "checkRouletteBet", bet |-> bet, number |-> number]
    /\ result' = [threw |-> FALSE,
                  isWin |-> checkRouletteBet(bet, generateRouletteResult(number)),
                  payout |-> betResult(bet, generateRouletteResult(number)).payout]
    /\ UNCHANGED <<players, gameStates, gs>>

NextWheel ==
    \/ \E bet \in WheelBets, number \in WheelNumbers : checkBet(bet, number)
    \/ taken

SpecWheel == Init /\ [][NextWheel]_vars

----------------------------------------------------------------------------
(* The card functions on their own: the two scoring functions on hands of  *)
(* up to MaxHand cards, the banker's rule on every pair of values, and     *)
(* one player's baccarat rounds, on one bet, on every deck of Shuffles     *)

\* the ranks of a hand of n cards, card by card
RanksOf(n) == [1..n -> {ranks[k] : k \in DOMAIN ranks}]

\* the hand of different cards with these ranks: the i-th card is of the
\* i-th suit
handOf(rs) ==
    [i \in 1..Len(rs) |-> [suit |-> suits[i], rank |-> rs[i], value |-> cardValue(rs[i])]]

scoreHand(hand) ==
    /\ call = idle
    /\ call' = [op |-> "calculateBlackjackScore", hand |-> hand]
    /\ result' = [threw |-> FALSE, score |-> calculateBlackjackScore(hand)]
    /\ UNCHANGED <<players, gameStates, gs>>

valueHand(cards) ==
    /\ call = idle
    /\ call' = [op |-> "calculateBaccaratValue", cards |-> cards]
    /\ result' = [threw |-> FALSE, value |-> calculateBaccaratValue(cards)]
    /\ UNCHANGED <<players, gameStates, gs>>

bankerDraws(bankerValue, playerThirdCard) ==
    /\ call = idle
    /\ call' = [op |-> "shouldBankerDrawThird", bankerValue |-> bankerValue,
                playerThirdCard |-> playerThirdCard]
    /\ result' = [threw |-> FALSE,
                  draws |-> shouldBankerDrawThird(bankerValue, playerThirdCard)]
    /\ UNCHANGED <<players, gameStates, gs>>

\* the values a baccarat hand and a baccarat card can have
BaccaratValues == 0..9

NextCards ==
    \/ /\ call = idle
       /\ \/ \E n \in 0..MaxHand : \E rs \in RanksOf(n) : scoreHand(handOf(rs))
          \/ \E n \in 0..MaxHand : \E rs \in RanksOf(n) : valueHand(handOf(rs))
          \/ \E bankerValue \in BaccaratValues, playerThirdCard \in BaccaratValues :
                bankerDraws(bankerValue, playerThirdCard)
          \/ \E tableId \in TableIds :
                \E seed \in (IF shuffles(tableId, "baccarat") THEN Shuffles
                              ELSE {NoSeed}) :
                    playBaccarat("p1", tableId, "player", 80, seed)
    \/ taken

SpecCards == Init /\ [][NextCards]_vars

----------------------------------------------------------------------------
(* Properties: blackjack rounds *)

\* the call that has just ended is playBlackjack(playerId, "blackjack-1", action)
\* for a registered player
isBlackjack(c, action) ==
    /\ c.op = "playBlackjack"
    /\ c.tableId = "blackjack-1"
    /\ c.playerId \in DOMAIN players
    /\ c.action = action

\* the player has placed a bet that was accepted: currentBet is written by an
\* accepted bet only (and doubled by a double), and never cleared
hasBet(pl, playerId) == pl[playerId].currentBet # Undefined

\* C1: after a successful bet by p on t, the round state the bet produced
\* (deck remainder, dealer hand, p's hand, p's bet) is the entry of t in the
\* per-table store, where the following hit, stand or double finds it.
C1_RoundKeptInStore ==
    (isBlackjack(call, "bet") /\ ~result.threw /\ result.success)
        => /\ call.tableId \in DOMAIN gameStates
           /\ gameStates[call.tableId] = gs

\* C2: playBlackjack returns a structured result and never raises, whatever
\* the table, the player, the action and the amount, after any earlier calls.
C2_NeverThrows == call.op = "playBlackjack" => ~result.threw

\* the outcome and payout C3 gives for the scores P and D and the bet b
claimedOutcome(P, D, b) ==
    IF P > 21 THEN <<"lose", 0>>
    ELSE IF D > 21 THEN <<"win", 2 * b>>
    ELSE IF P > D THEN <<"win", 2 * b>>
    ELSE IF P < D THEN <<"lose", 0>>
    ELSE <<"push", b>>

\* C3: the resolution run by a stand of a player whose bet b is recorded
\* returns the outcome and payout that the final scores P and D determine
\* (P > 21 lose 0; else D > 21 win 2b; else P > D win 2b; P < D lose 0;
\* P = D push b), and the gold-coin ledger grows by exactly that payout.
C3_ResolutionOutcome ==
    [][ (isBlackjack(call', "stand") /\ hasBet(players, call'.playerId))
          => /\ ~result'.threw
             /\ result'.success
             /\ <<result'.result, result'.payout>>
                   = claimedOutcome(result'.playerScore, result'.dealerScore,
                                    players[call'.playerId].currentBet)
             /\ players'[call'.playerId].balance.goldCoins
                   = players[call'.playerId].balance.goldCoins + result'.payout
      ]_vars

\* C4: a double by a player whose bet b is recorded and who can afford it
\* doubles the recorded bet, draws one card into the hand and resolves at
\* once with the doubled bet: a win pays 4b, a push returns 2b.
C4_DoublePaysOnDoubledBet ==
    [][ (/\ isBlackjack(call', "double")
         /\ hasBet(players, call'.playerId)
         /\ canAffordWager(players, call'.playerId,
                           players[call'.playerId].currentBet, "GC"))
          => LET b == players[call'.playerId].currentBet
             IN  /\ ~result'.threw
                 /\ result'.success
                 /\ players'[call'.playerId].currentBet = 2 * b
                 /\ Len(gs'.playerHands[call'.playerId]) >= 3
                 /\ result'.payout = (CASE result'.result = "win"  -> 4 * b
                                        [] result'.result = "push" -> 2 * b
                                        [] OTHER -> 0)
      ]_vars

\* C6: a bet on blackjack-1 by a registered player succeeds exactly when the
\* amount is given and lies in 5..500, both limits included; any other amount
\* (missing, zero, below 5, above 500) yields "Invalid bet amount".
C6_BetWithinLimits ==
    isBlackjack(call, "bet")
        => IF call.bet # Undefined /\ call.bet >= 5 /\ call.bet <= 500
           THEN ~result.threw /\ result.success
           ELSE result = failure("Invalid bet amount")

\* a bet of exactly the upper limit was accepted
C6_Witness ==
    isBlackjack(call, "bet") /\ call.bet = 500 /\ ~result.threw /\ result.success

\* C7: a successful bet records the bet, gives the player the last two cards
\* of the table's deck and the dealer the two before them, leaves the deck 4
\* cards shorter, sets the stage to playing, and returns the player's two
\* cards, the dealer's first card alone and the score of the player's hand.
C7_BetDeals ==
    [][ (isBlackjack(call', "bet") /\ ~result'.threw /\ result'.success)
          => LET p    == call'.playerId
                 deck == getGameState(gameStates, call'.tableId, call'.seed).deck
                 n    == Len(deck)
             IN  /\ players'[p].currentBet = call'.bet
                 /\ gs'.bets[p] = call'.bet
                 /\ gs'.playerHands[p] = <<deck[n], deck[n - 1]>>
                 /\ gs'.dealerHand = <<deck[n - 2], deck[n - 3]>>
                 /\ gs'.deck = SubSeq(deck, 1, n - 4)
                 /\ gs'.stage = "playing"
                 /\ DOMAIN result'
                      = {"threw", "success", "playerHand", "dealerCard", "playerScore"}
                 /\ result'.playerHand = <<deck[n], deck[n - 1]>>
                 /\ result'.dealerCard = deck[n - 2]
                 /\ result'.playerScore
                      = adjustAces(sumHand(<<deck[n], deck[n - 1]>>)[1],
                                   sumHand(<<deck[n], deck[n - 1]>>)[2])
      ]_vars

\* a bet was accepted and dealt four different cards from a full deck
C7_Witness ==
    /\ isBlackjack(call, "bet") /\ ~result.threw /\ result.success
    /\ Len(gs.deck) = 48
    /\ Cardinality({result.playerHand[1], result.playerHand[2],
                    gs.dealerHand[1], gs.dealerHand[2]}) = 4

\* C8: a stand by a player whose bet was accepted returns a success result:
\* the dealer drew while below 17 and ends at 17 or more, and the outcome is
\* the win, lose or push that the two final hands determine.
C8_StandResolves ==
    (isBlackjack(call, "stand") /\ hasBet(players, call.playerId))
        => /\ ~result.threw
           /\ result.success
           /\ result.dealerScore = calculateBlackjackScore(result.dealerHand)
           /\ result.dealerScore >= 17
           /\ \A k \in 2..(Len(result.dealerHand) - 1) :
                  calculateBlackjackScore(SubSeq(result.dealerHand, 1, k)) < 17
           /\ result.result
                = (IF result.dealerScore > 21 THEN "win"
                   ELSE IF result.playerScore > result.dealerScore THEN "win"
                   ELSE IF result.playerScore < result.dealerScore THEN "lose"
                   ELSE "push")

\* C9: a hit by a player whose bet was accepted draws one card into the hand
\* and returns the hand with its score, reporting "bust" above 21 and leaving
\* the stage, the recorded bet and every balance unchanged; a hit by a player
\* without a hand fails with "No active hand".
C9_HitDrawsOne ==
    [][ isBlackjack(call', "hit")
          => IF hasBet(players, call'.playerId)
             THEN /\ ~result'.threw
                  /\ result'.success
                  /\ Len(result'.hand) >= 3
                  /\ result'.hand = gs'.playerHands[call'.playerId]
                  /\ result'.score = calculateBlackjackScore(result'.hand)
                  /\ (result'.score > 21 => result'.result = "bust")
                  /\ gs'.stage = "playing"
                  /\ players' = players
             ELSE result' = failure("No active hand")
      ]_vars

\* C10: a call that returns a failure result changes nothing: the stored
\* round states, the recorded bets and both ledgers of every player are as
\* they were before the call.
C10_FailureChangesNothing ==
    [][ (call' # idle /\ ~result'.threw /\ ~result'.success)
          => players' = players /\ gameStates' = gameStates
      ]_vars

\* a failure was returned by an engine that holds a recorded bet: a double
\* that passed the funds check and found no hand
C10_Witness ==
    /\ isBlackjack(call, "double")
    /\ result = failure("No active hand")
    /\ hasBet(players, call.playerId)

\* C11: playBlackjack reports errors in this order: a table id that is unknown
\* or not of type blackjack gives "Invalid blackjack table", whatever the
\* player and the action; otherwise an unknown player gives "Player not
\* found"; otherwise an action other than bet, hit, stand and double gives
\* "Invalid action".
C11_ErrorPrecedence ==
    call.op = "playBlackjack"
        => IF call.tableId \notin {"blackjack-1"}
           THEN result = failure("Invalid blackjack table")
           ELSE IF call.playerId \notin DOMAIN players
           THEN result = failure("Player not found")
           ELSE (call.action \notin {"bet", "hit", "stand", "double"}
                    => result = failure("Invalid action"))

\* an unknown player's unknown action on a table of another game was refused
\* for its table
C11_Witness ==
    /\ call.op = "playBlackjack"
    /\ call.tableId = "roulette-1"
    /\ call.playerId = "nobody"
    /\ call.action = "split"
    /\ result = failure("Invalid blackjack table")

\* C12: a double by a player whose bet is recorded fails with "Insufficient
\* funds to double" exactly when the gold-coin balance is lower than the
\* current bet; the table's maxBet plays no part, so every other double, also
\* one whose doubled bet exceeds maxBet.gc, is accepted.
C12_DoubleFundsOnly ==
    [][ (isBlackjack(call', "double") /\ hasBet(players, call'.playerId))
          => IF players[call'.playerId].balance.goldCoins
                  < players[call'.playerId].currentBet
             THEN result' = failure("Insufficient funds to double")
             ELSE ~result'.threw /\ result'.success
      ]_vars

\* C18: the stage of a round goes betting -> playing -> resolved: betting in
\* a state just created, playing once a bet was accepted, resolved once a
\* stand or a double of a player with a recorded bet has run the resolution;
\* it never moves backwards: the round of a player whose bet is recorded is
\* not in betting again.
C18_StageFollowsRound ==
    (call.op = "playBlackjack" /\ call.tableId = "blackjack-1")
        => /\ gs.stage \in {"betting", "playing", "resolved"}
           /\ (gs = newGameState(call.seed) => gs.stage = "betting")
           /\ (isBlackjack(call, "bet") /\ ~result.threw /\ result.success
                  => gs.stage = "playing")
           /\ ((/\ call.playerId \in DOMAIN players
                /\ call.action \in {"stand", "double"}
                /\ hasBet(players, call.playerId)
                /\ result # failure("Insufficient funds to double"))
                  => gs.stage = "resolved")
           /\ (call.playerId \in DOMAIN players /\ hasBet(players, call.playerId)
                  => gs.stage # "betting")

\* C19: nothing guards a round that was resolved already: a stand of a player
\* with a recorded bet, the first one and one issued again right after it
\* alike, is not rejected but runs the resolution on the hands stored for the
\* table and credits the payout (so a repeated stand credits it a second
\* time).
C19_StandAgainResolvesAgain ==
    [][ (isBlackjack(call', "stand") /\ hasBet(players, call'.playerId))
          => LET p == call'.playerId
                 t == call'.tableId
             IN  /\ ~result'.threw
                 /\ result'.success
                 /\ t \in DOMAIN gameStates
                 /\ p \in DOMAIN gameStates[t].playerHands
                 /\ result'.playerScore
                      = calculateBlackjackScore(gameStates[t].playerHands[p])
                 /\ players'[p].balance.goldCoins
                      = players[p].balance.goldCoins + result'.payout
      ]_vars

\* C20: a bet accepted on a table that already has a round state (some
\* player's bet was accepted there before) works on that state and does not
\* reset it: the deal comes from the stored deck remainder, which gets 4
\* cards shorter (no new 52-card deck), and the hands and bets of the other
\* players stay in the state.
C20_BetReusesState ==
    [][ (/\ isBlackjack(call', "bet") /\ ~result'.threw /\ result'.success
         /\ \E q \in DOMAIN players : hasBet(players, q))
          => LET p == call'.playerId
                 t == call'.tableId
             IN  /\ t \in DOMAIN gameStates
                 /\ Len(gs'.deck) + 4 = Len(gameStates[t].deck)
                 /\ Len(gs'.deck) + 4 < Len(orderedDeck)
                 /\ \A q \in DOMAIN players \ {p} :
                       hasBet(players, q)
                         => /\ q \in DOMAIN gs'.playerHands
                            /\ q \in DOMAIN gs'.bets
                            /\ gs'.playerHands[q] = gameStates[t].playerHands[q]
                            /\ gs'.bets[q] = gameStates[t].bets[q]
      ]_vars

----------------------------------------------------------------------------
(* Properties: baccarat *)

\* C5: when the player has taken a third card, the banker draws exactly when
\* the rule table says so for the banker's two-card value and the baccarat
\* value of that third card (A = 1, T/J/Q/K = 0, 2-9 at face value).
C5_BankerRuleOnBaccaratValue ==
    (/\ call.op = "playBaccarat"
     /\ result.success
     /\ Len(result.result.playerHand.cards) = 3)
        => LET banker == result.result.bankerHand.cards
               third  == result.result.playerHand.cards[3]
           IN  (Len(banker) = 3)
                 <=> shouldBankerDrawThird(
                         calculateBaccaratValue(SubSeq(banker, 1, 2)),
                         baccaratCardValue(third))

\* C13: the winner of a baccarat round is the side whose final value is
\* strictly higher, and tie when the values are equal; a winning player bet
\* pays 2x the stake, a winning banker bet 1.95x, a winning tie bet 9x, and a
\* bet on another category than the winner pays 0; the gold-coin ledger grows
\* by the payout when it is > 0 and nothing changes otherwise.
C13_BaccaratWinnerAndPayout ==
    [][ (call'.op = "playBaccarat" /\ result'.success)
          => LET round  == result'.result
                 pv     == baccaratTotal(round.playerHand.cards) % 10
                 bv     == baccaratTotal(round.bankerHand.cards) % 10
                 stake  == call'.amount
                 payout == result'.payout
                 p      == call'.playerId
             IN  /\ round.playerHand.value = pv
                 /\ round.bankerHand.value = bv
                 /\ (round.winner = "player") <=> (pv > bv)
                 /\ (round.winner = "banker") <=> (bv > pv)
                 /\ (round.winner = "tie") <=> (pv = bv)
                 /\ (call'.betType # round.winner => payout = 0)
                 /\ (call'.betType = round.winner =>
                        /\ (round.winner = "player" => payout = 2 * stake)
                        /\ (round.winner = "banker" => 100 * payout = 195 * stake)
                        /\ (round.winner = "tie" => payout = 9 * stake))
                 /\ IF payout > 0
                    THEN players' = [players EXCEPT
                                       ![p].balance.goldCoins = @ + payout]
                    ELSE players' = players
      ]_vars

\* a banker bet of 80 won and was paid 156, the stake with 95% of it
C13_Witness ==
    /\ call.op = "playBaccarat" /\ result.success
    /\ call.betType = "banker" /\ result.result.winner = "banker"
    /\ result.payout = 156
    /\ players[call.playerId].balance.goldCoins
          = InitialPlayers[call.playerId].balance.goldCoins + 156

----------------------------------------------------------------------------
(* Properties: roulette *)

RECURSIVE paidUpTo(_, _)
\* the payouts of the first k entries of a breakdown, added up
paidUpTo(betResults, k) ==
    IF k = 0 THEN 0 ELSE paidUpTo(betResults, k - 1) + betResults[k].payout

\* C14: in playRoulette every winning bet pays its stake times its multiplier
\* and every losing bet pays 0; totalPayout is the sum of these payouts; the
\* breakdown lists the bets in the order they were submitted; the gold-coin
\* ledger is credited once with totalPayout when it is > 0 and nothing is
\* credited otherwise (an empty bet list included).
C14_RoulettePayout ==
    [][ (call'.op = "playRoulette" /\ result'.success)
          => LET bets  == call'.bets
                 br    == result'.betResults
                 total == result'.totalPayout
                 p     == call'.playerId
             IN  /\ Len(br) = Len(bets)
                 /\ \A i \in 1..Len(bets) :
                       /\ br[i].type = bets[i].type
                       /\ br[i].amount = bets[i].amount
                       /\ br[i].payout = IF br[i].isWin
                                         THEN bets[i].amount * bets[i].payout
                                         ELSE 0
                 /\ total = paidUpTo(br, Len(br))
                 /\ (bets = <<>> => total = 0)
                 /\ IF total > 0
                    THEN players' = [players EXCEPT
                                       ![p].balance.goldCoins = @ + total]
                    ELSE players' = players
      ]_vars

\* of two bets the first won and the second lost: its 100 alone was credited
C14_Witness ==
    /\ call.op = "playRoulette" /\ result.success
    /\ Len(result.betResults) = 2
    /\ result.betResults[1].isWin /\ ~result.betResults[2].isWin
    /\ result.totalPayout = 100
    /\ players[call.playerId].balance.goldCoins
          = InitialPlayers[call.playerId].balance.goldCoins + 100

\* the wheel numbers whose outcome has the value v in the field f
numbersWith(f, v) == {n \in 0..36 : generateRouletteResult(n)[f] = v}

wins(type, numbers, n) ==
    checkRouletteBet([type |-> type, numbers |-> numbers, amount |-> 1, payout |-> 2],
                     generateRouletteResult(n))

\* C16: a roulette bet wins by the rule of its category: straight iff the
\* number is among the bet's numbers; red/black iff the outcome has that
\* colour; odd/even iff the number is not 0 and of that parity; low iff
\* 1 <= n <= 18; high iff 19 <= n <= 36; dozen/column iff the first listed
\* number equals the outcome's dozen/column.  On 0 none of odd, even, low,
\* high wins; on every n in 1..36 exactly one of odd/even and exactly one of
\* low/high wins.
C16_BetRules ==
    call.op = "checkRouletteBet"
        => LET n       == call.number
               type    == call.bet.type
               numbers == call.bet.numbers
               red     == {1, 3, 5, 7, 9, 12, 14, 16, 18, 19, 21, 23, 25, 27, 30,
                           32, 34, 36}
               first   == IF numbers = <<>> THEN Undefined ELSE numbers[1]
           IN  /\ (type = "straight" =>
                      (result.isWin <=> n \in {numbers[i] : i \in 1..Len(numbers)}))
               /\ (type = "red" => (result.isWin <=> n \in red))
               /\ (type = "black" => (result.isWin <=> n \in (1..36) \ red))
               /\ (type = "odd" => (result.isWin <=> n # 0 /\ n % 2 = 1))
               /\ (type = "even" => (result.isWin <=> n # 0 /\ n % 2 = 0))
               /\ (type = "low" => (result.isWin <=> n \in 1..18))
               /\ (type = "high" => (result.isWin <=> n \in 19..36))
               /\ (type = "dozen" =>
                      (result.isWin <=> first = (IF n = 0 THEN 0 ELSE (n + 11) \div 12)))
               /\ (type = "column" =>
                      (result.isWin <=> first = (IF n = 0 THEN 0 ELSE ((n - 1) % 3) + 1)))
               /\ (n = 0 => \A t \in {"odd", "even", "low", "high"} :
                               ~wins(t, numbers, n))
               /\ (n # 0 => /\ wins("odd", numbers, n) # wins("even", numbers, n)
                            /\ wins("low", numbers, n) # wins("high", numbers, n))

\* an even bet lost on the zero
C16_Witness ==
    /\ call.op = "checkRouletteBet"
    /\ call.bet.type = "even" /\ call.number = 0
    /\ ~result.isWin

----------------------------------------------------------------------------
(* Properties: the ledgers *)

\* what a returned value says was paid
paid(r) ==
    IF "totalPayout" \in DOMAIN r THEN r.totalPayout
    ELSE IF "payout" \in DOMAIN r THEN r.payout
    ELSE 0

\* C17: whatever the sequence of blackjack, roulette and baccarat calls, a
\* call changes no sweep-coin ledger: every payout goes to the gold-coin
\* ledger of the caller, and no other gold-coin ledger changes.
C17_OnlyGoldLedger ==
    [][ call'.op \in {"playBlackjack", "playRoulette", "playBaccarat"}
          => /\ DOMAIN players' = DOMAIN players
             /\ \A p \in DOMAIN players :
                   /\ players'[p].balance.sweepCoins = players[p].balance.sweepCoins
                   /\ (p # call'.playerId =>
                          players'[p].balance.goldCoins = players[p].balance.goldCoins)
             /\ (call'.playerId \in DOMAIN players /\ ~result'.threw =>
                    players'[call'.playerId].balance.goldCoins
                      = players[call'.playerId].balance.goldCoins
                          + (IF paid(result') > 0 THEN paid(result') ELSE 0))
      ]_vars

\* a payout was credited to a player who holds sweep coins: the gold coins
\* grew by it and the sweep coins are those the player started with
C17_Witness ==
    /\ call.op \in {"playRoulette", "playBaccarat"} /\ result.success
    /\ paid(result) > 0
    /\ InitialPlayers[call.playerId].balance.sweepCoins > 0
    /\ players[call.playerId].balance.goldCoins
          = InitialPlayers[call.playerId].balance.goldCoins + paid(result)
    /\ players[call.playerId].balance.sweepCoins
          = InitialPlayers[call.playerId].balance.sweepCoins

----------------------------------------------------------------------------
(* Properties: the card functions *)

\* the cards of a hand that are aces, by position
acesOf(hand) == {i \in 1..Len(hand) : hand[i].rank = "A"}

RECURSIVE lowTotal(_)
\* the total of a hand with every ace counted as 1
lowTotal(hand) ==
    IF hand = <<>> THEN 0
    ELSE lowTotal(Tail(hand))
         + (CASE Head(hand).rank = "A" -> 1
              [] Head(hand).rank \in {"T", "J", "Q", "K"} -> 10
              [] OTHER -> parseInt(Head(hand).rank))

\* the totals of a hand: each ace counts 11 or 1
totalsOf(hand) == {lowTotal(hand) + 10 * k : k \in 0..Cardinality(acesOf(hand))}

\* C21: for every hand calculateBlackjackScore is the highest total not above
\* 21 that counting each ace as 11 or 1 can give (T/J/Q/K = 10, 2-9 at face
\* value); when there is none, it is the total with every ace as 1, which is
\* above 21.  So [A,A] = 12, [A,K] = 21, [K,K,K] = 30.
C21_BlackjackScore ==
    call.op = "calculateBlackjackScore"
        => LET hand   == call.hand
               within == {t \in totalsOf(hand) : t <= 21}
               rankAt == [i \in 1..Len(hand) |-> hand[i].rank]
           IN  /\ IF within # {}
                  THEN /\ result.score \in within
                       /\ \A t \in within : t <= result.score
                  ELSE result.score = lowTotal(hand) /\ result.score > 21
               /\ (rankAt = <<"A", "A">> => result.score = 12)
               /\ (rankAt = <<"A", "K">> => result.score = 21)
               /\ (rankAt = <<"K", "K", "K">> => result.score = 30)

\* two aces and a king were scored 12: both aces count 1
C21_Witness ==
    /\ call.op = "calculateBlackjackScore"
    /\ [i \in 1..Len(call.hand) |-> call.hand[i].rank] = <<"A", "A", "K">>
    /\ result.score = 12

\* the points of a rank at baccarat: the place of the rank in A, 2, ..., 9,
\* and nothing for T, J, Q, K
points(rank) ==
    LET k == CHOOSE i \in DOMAIN ranks : ranks[i] = rank
    IN  IF k <= 9 THEN k ELSE 0

RECURSIVE pointsUpTo(_, _)
\* the points of the first k cards
pointsUpTo(cards, k) ==
    IF k = 0 THEN 0 ELSE pointsUpTo(cards, k - 1) + points(cards[k].rank)

\* C22: for every list of cards calculateBaccaratValue is the sum of the
\* cards' values (A = 1, T/J/Q/K = 0, 2-9 at face value) modulo 10, hence in
\* 0..9; the values playBaccarat reports for the player and the banker are
\* in 0..9.  So [A,8] = 9, [5,7] = 2, [K,K] = 0.
C22_BaccaratValue ==
    /\ call.op = "calculateBaccaratValue"
          => LET cards  == call.cards
                 sum    == pointsUpTo(cards, Len(cards))
                 rankAt == [i \in 1..Len(cards) |-> cards[i].rank]
             IN  /\ result.value \in 0..9
                 /\ \E q \in 0..Len(cards) : sum = 10 * q + result.value
                 /\ (rankAt = <<"A", "8">> => result.value = 9)
                 /\ (rankAt = <<"5", "7">> => result.value = 2)
                 /\ (rankAt = <<"K", "K">> => result.value = 0)
    /\ (call.op = "playBaccarat" /\ result.success)
          => /\ result.result.playerHand.value \in 0..9
             /\ result.result.bankerHand.value \in 0..9

\* a five and a seven were valued 2
C22_Witness ==
    /\ call.op = "calculateBaccaratValue"
    /\ [i \in 1..Len(call.cards) |-> call.cards[i].rank] = <<"5", "7">>
    /\ result.value = 2

\* C23: the banker's third-card rule for the banker's two-card value v and
\* the value c in 0..9 of the player's third card: v <= 2 draws; v >= 7 does
\* not; v = 3 draws unless c = 8; v = 4 draws iff c is in 2..7; v = 5 iff c is
\* in 4..7; v = 6 iff c is 6 or 7.
C23_BankerRuleTable ==
    call.op = "shouldBankerDrawThird"
        => LET v == call.bankerValue
               c == call.playerThirdCard
           IN  /\ (v <= 2 => result.draws)
               /\ (v >= 7 => ~result.draws)
               /\ (v = 3 => (result.draws <=> c # 8))
               /\ (v = 4 => (result.draws <=> (2 <= c /\ c <= 7)))
               /\ (v = 5 => (result.draws <=> (4 <= c /\ c <= 7)))
               /\ (v = 6 => (result.draws <=> (c = 6 \/ c = 7)))

\* a banker on 3 stood on the player's 8
C23_Witness ==
    /\ call.op = "shouldBankerDrawThird"
    /\ call.bankerValue = 3 /\ call.playerThirdCard = 8
    /\ ~result.draws

----------------------------------------------------------------------------
(* Properties: the baccarat round *)

\* the value of the first two cards of a returned hand
initialValue(cards) == pointsUpTo(cards, 2) % 10

\* C24: when the first two cards of the player or of the banker are worth 8
\* or 9 (a natural), no further card is drawn: both returned hands have two
\* cards and their final values are the initial values; isNatural is true
\* exactly for a hand whose first two cards are worth 8 or more.
C24_NaturalStopsTheRound ==
    (call.op = "playBaccarat" /\ result.success)
        => LET player == result.result.playerHand
               banker == result.result.bankerHand
               pv     == initialValue(player.cards)
               bv     == initialValue(banker.cards)
           IN  /\ player.isNatural <=> (pv >= 8)
               /\ banker.isNatural <=> (bv >= 8)
               /\ (pv >= 8 \/ bv >= 8)
                     => /\ Len(player.cards) = 2
                        /\ Len(banker.cards) = 2
                        /\ player.value = pv
                        /\ banker.value = bv

\* the banker's natural 8 stopped a round in which the player, on 5 or
\* less, would have drawn
C24_Witness ==
    /\ call.op = "playBaccarat" /\ result.success
    /\ result.result.bankerHand.isNatural /\ ~result.result.playerHand.isNatural
    /\ result.result.bankerHand.value = 8
    /\ result.result.playerHand.value <= 5
    /\ Len(result.result.playerHand.cards) = 2

\* C25: in a round without a natural the player draws a third card exactly
\* when the player's two cards are worth 5 or less; when the player stands
\* (on 6 or 7) the banker draws one card if the banker's two cards are worth
\* 5 or less and stands if they are worth 6 or more.
C25_ThirdCards ==
    (call.op = "playBaccarat" /\ result.success)
        => LET player == result.result.playerHand.cards
               banker == result.result.bankerHand.cards
               pv     == initialValue(player)
               bv     == initialValue(banker)
           IN  (pv < 8 /\ bv < 8)
                 => /\ Len(player) = (IF pv <= 5 THEN 3 ELSE 2)
                    /\ (pv >= 6 => Len(banker) = (IF bv <= 5 THEN 3 ELSE 2))

\* the player stood on 7 and the banker, on 5 or less, drew one card
C25_Witness ==
    /\ call.op = "playBaccarat" /\ result.success
    /\ Len(result.result.playerHand.cards) = 2
    /\ result.result.playerHand.value = 7
    /\ Len(result.result.bankerHand.cards) = 3
    /\ initialValue(result.result.bankerHand.cards) <= 5

----------------------------------------------------------------------------
(* Properties: the zero and the inside bets *)

C29_InsideBetsNeverWin ==
    (call.op = "checkRouletteBet"
     /\ call.bet.type \in {"split", "street", "corner", "line"})
        => ~result.isWin /\ result.payout = 0

\* a split on 2 and 3 lost on the 3
C29_Witness ==
    /\ call.op = "checkRouletteBet"
    /\ call.bet.type = "split" /\ call.bet.numbers = <<2, 3>> /\ call.number = 3
    /\ ~result.isWin /\ result.payout = 0

----------------------------------------------------------------------------
(* Properties: the games without a round state *)

\* what a blackjack call would do and return in an engine with these players
\* and these stored round states
blackjackRound(pl, states, playerId, action, seed) ==
    LET r == blackjack(pl, states, playerId, "blackjack-1", action,
                       IF action = "bet" THEN 5 ELSE Undefined, seed)
    IN  <<r.gameStates, r.gs, r.result>>

----------------------------------------------------------------------------
(* Properties: no debit *)

\* C27: the engine never debits: whatever the calls (playBlackjack bet, hit,
\* stand, double, playRoulette, playBaccarat, joinTable), no gold-coin
\* balance ever decreases; a blackjack bet within the limits is accepted
\* whatever the balance and takes no stake, a double takes none either, and
\* a payout that is not positive (from a negative stake or multiplier) is
\* not applied to the ledger.
C27_NeverDebits ==
    [][ /\ DOMAIN players' = DOMAIN players
        /\ \A p \in DOMAIN players :
              players'[p].balance.goldCoins >= players[p].balance.goldCoins
        /\ (isBlackjack(call', "bet") =>
              /\ (call'.bet \in 5..500 => ~result'.threw /\ result'.success)
              /\ players'[call'.playerId].balance = players[call'.playerId].balance)
        /\ (isBlackjack(call', "double") =>
              players'[call'.playerId].balance = players[call'.playerId].balance)
        /\ ((/\ call'.op \in {"playRoulette", "playBaccarat"}
             /\ result'.success
             /\ paid(result') <= 0) => players' = players)
      ]_vars

\* a player without a single gold coin had a bet of 500 accepted, and still
\* has none
C27_Witness ==
    /\ isBlackjack(call, "bet") /\ ~result.threw /\ result.success
    /\ call.bet = 500
    /\ players[call.playerId].balance.goldCoins = 0

----------------------------------------------------------------------------
(* Properties: card conservation *)

RECURSIVE dealt(_, _)
\* the hands of the players of `ids`, one after the other
dealt(playerHands, ids) ==
    IF ids = {} THEN <<>>
    ELSE LET p == CHOOSE q \in ids : TRUE
         IN  playerHands[p] \o dealt(playerHands, ids \ {p})

\* every card a round state holds: deck remainder, dealer hand, players' hands
cardsOf(gameState) ==
    gameState.deck \o gameState.dealerHand
        \o dealt(gameState.playerHands, DOMAIN gameState.playerHands)

\* the round state holds each of the 52 cards of `deck` exactly once
conserves(gameState, deck) ==
    LET all == cardsOf(gameState)
    IN  /\ Len(all) = 52
        /\ Cardinality({all[i] : i \in 1..Len(all)}) = 52
        /\ {all[i] : i \in 1..Len(all)} = {deck[i] : i \in 1..Len(deck)}
        /\ {all[i] : i \in 1..Len(all)}
              = {[suit |-> su, rank |-> ranks[k], value |-> cardValue(ranks[k])] :
                    su \in {suits[j] : j \in DOMAIN suits}, k \in DOMAIN ranks}

\* C30: in every state reached while a blackjack round state is in use, the
\* deck remainder, the dealer hand and the players' hands are pairwise
\* disjoint and are together exactly the 52 distinct (suit, rank) cards of
\* the deck the state was created with, as long as no draw met an empty deck.
C30_CardConservation ==
    /\ ((/\ call.op = "playBlackjack"
         /\ gs # NoGameState
         /\ ~scoreThrows(cardsOf(gs))) => conserves(gs, createDeck(call.seed)))
    /\ \A t \in DOMAIN gameStates :
          ~scoreThrows(cardsOf(gameStates[t]))
              => conserves(gameStates[t], orderedDeck)

\* a stand made the dealer draw three cards or more from the deck
C30_Witness ==
    /\ isBlackjack(call, "stand")
    /\ Len(gs.dealerHand) >= 3
    /\ Len(gs.deck) = 52 - Len(gs.dealerHand)
    /\ ~scoreThrows(cardsOf(gs))

====
